---- MODULE Spec2Model ----
(***************************************************************************)
(* A model of CGL.py (Conway's Game of Life): the grid engine              *)
(* (calculate_next_generation, check_neighbour, create_next_generation),   *)
(* the generation loop of run_simulation, apply_seed, and the seed file    *)
(* codec (save_seed_to_file, load_seed_from_file).                         *)
(*                                                                         *)
(* A grid is a Python list of rows, each row a list of 0/1; it is modelled *)
(* as a sequence of sequences.  Python subscripts are 0-based and accept   *)
(* negative indices (lst[-1] is the last element); TLA+ sequences are      *)
(* 1-based, so every subscript goes through IndexOk / Pos below.           *)
(***************************************************************************)
EXTENDS Integers, Sequences, FiniteSets, TLC

VARIABLES
    grid,                                   \* the 2D list of cells
    pc,                                     \* position of the control flow
    cells_to_be_killed,                     \* run_simulation local
    cells_to_be_revived,                    \* run_simulation local
    living_cells_before_next_generation,    \* run_simulation local
    cells_alive,                            \* run_simulation local
    pre_step_grid,                          \* history: grid when calculate_next_generation was called
    canvas_height,                          \* create_simulation local
    canvas_width,                           \* create_simulation local
    current_seed,                           \* the list of [y, x] cells that start alive
    seed_file,                              \* text of the seed file, a sequence of characters
    written,                                \* history: what save_seed_to_file was given
    min_auto_seed_percent,                  \* IntVar of the settings
    max_auto_seed_percent,                  \* IntVar of the settings
    amount_of_cells_to_seed,                \* generate_seed local
    max_framerate,                          \* IntVar of the settings
    pause_signal,                           \* BooleanVar toggled by the Pause button
    next_frame_signal,                      \* BooleanVar toggled by the Next frame button
    next_frame_button,                      \* TRUE while the Next frame button is shown
    canvas,                                 \* the canvas widget: configured size and rectangles
    drawn_cells,                            \* dict: rectangle name -> canvas item id
    mode,                                   \* game_loop parameter: "new", "replay" or "load"
    stack,                                  \* the game_loop calls suspended in canvas.update()
    history,                                \* history: the frames that run_simulation has drawn
    superseded                              \* history: a game_loop called since has created its simulation

vars == <<grid, pc, cells_to_be_killed, cells_to_be_revived,
          living_cells_before_next_generation, cells_alive, pre_step_grid,
          canvas_height, canvas_width, current_seed, seed_file, written,
          min_auto_seed_percent, max_auto_seed_percent, amount_of_cells_to_seed,
          max_framerate, pause_signal, next_frame_signal, next_frame_button,
          canvas, drawn_cells, mode, stack, history, superseded>>

stepVars == <<cells_to_be_killed, cells_to_be_revived,
              living_cells_before_next_generation, cells_alive, pre_step_grid>>
seedVars == <<canvas_height, canvas_width, current_seed>>
fileVars == <<seed_file, written>>
genVars == <<min_auto_seed_percent, max_auto_seed_percent, amount_of_cells_to_seed>>
guiVars == <<max_framerate, pause_signal, next_frame_signal, next_frame_button,
             canvas, drawn_cells, mode, stack, history, superseded>>

----------------------------------------------------------------------------
(* Bounds of the model.                                                    *)

\* The step specification starts from every grid of at most MaxCells cells
\* (every shape height x width with height * width <= MaxCells).
MaxCells == 9

\* The still-life specification places a 2x2 block on every grid of
\* 2..MaxBlockSide rows and 2..MaxBlockSide columns.
MaxBlockSide == 5

\* The blinker specification runs on every grid of 5..MaxBlinkerSide rows and
\* 5..MaxBlinkerSide columns.
MaxBlinkerSide == 8

\* The seed specification applies every seed of at most MaxSeedLen coordinates,
\* rows 0..height and columns 0..width, to grids of 1..MaxSeedSide rows and
\* columns (row = height and column = width are the out-of-bounds cases).
MaxSeedSide == 2
MaxSeedLen == 2

\* The codec specification saves and loads every seed of at most
\* MaxCodecSeedLen coordinates whose numbers are 0 or 9..MaxCodecValue (one
\* and two decimal digits); the dimensions also take the default canvas size.
MaxCodecSeedLen == 2
MaxCodecValue == 10
DEFAULT_CANVAS_HEIGHT == 100
DEFAULT_CANVAS_WIDTH == DEFAULT_CANVAS_HEIGHT
DEFAULT_MAX_FRAMERATE == 30
DEFAULT_MIN_AUTO_SEED_PERCENT == 5
DEFAULT_MAX_AUTO_SEED_PERCENT == 20

----------------------------------------------------------------------------
(* Python list subscripts.                                                 *)

\* lst[k] on a list of length n raises IndexError unless -n <= k < n.
IndexOk(k, n) == k >= -n /\ k < n

\* The 1-based position that the Python subscript k denotes in a list of length n.
Pos(k, n) == IF k < 0 THEN k + n + 1 ELSE k + 1

\* grid[y][x] raises IndexError.
SubscriptRaises(g, y, x) ==
    \/ ~IndexOk(y, Len(g))
    \/ ~IndexOk(x, Len(g[Pos(y, Len(g))]))

\* The value of grid[y][x] when it does not raise.
Subscript(g, y, x) ==
    LET row == g[Pos(y, Len(g))] IN row[Pos(x, Len(row))]

\* grid[y][x] = v, when it does not raise.
SetItem(g, y, x, v) ==
    LET r == Pos(y, Len(g)) IN
    [g EXCEPT ![r] = [@ EXCEPT ![Pos(x, Len(g[r]))] = v]]

\* try: neighbour_state = grid[y][x]  except IndexError: neighbour_state = 0
TrySubscript(g, y, x) ==
    IF SubscriptRaises(g, y, x) THEN 0 ELSE Subscript(g, y, x)

----------------------------------------------------------------------------
(* check_neighbour, calculate_next_generation, create_next_generation      *)

\* check_neighbour whose south branch reads the north neighbour (a branch
\* copied without adapting the subscript).
check_neighbourSouthReadsNorth(y, x, i, g) ==
    CASE i = 0 -> TrySubscript(g, y - 1, x)
      [] i = 1 -> TrySubscript(g, y - 1, x + 1)
      [] i = 2 -> TrySubscript(g, y, x + 1)
      [] i = 3 -> TrySubscript(g, y + 1, x + 1)
      [] i = 4 -> TrySubscript(g, y - 1, x)
      [] i = 5 -> TrySubscript(g, y + 1, x - 1)
      [] i = 6 -> TrySubscript(g, y, x - 1)
      [] i = 7 -> TrySubscript(g, y - 1, x - 1)

\* check_neighbour whose east branch uses the subscript x + 1 - len(grid[y]),
\* which denotes column 0 for the cells of the last column.
check_neighbourEastWraps(y, x, i, g) ==
    CASE i = 0 -> TrySubscript(g, y - 1, x)
      [] i = 1 -> TrySubscript(g, y - 1, x + 1)
      [] i = 2 -> TrySubscript(g, y, x + 1 - Len(g[y + 1]))
      [] i = 3 -> TrySubscript(g, y + 1, x + 1)
      [] i = 4 -> TrySubscript(g, y + 1, x)
      [] i = 5 -> TrySubscript(g, y + 1, x - 1)
      [] i = 6 -> TrySubscript(g, y, x - 1)
      [] i = 7 -> TrySubscript(g, y - 1, x - 1)

check_neighbour(y, x, i, g) ==
    CASE i = 0 -> TrySubscript(g, y - 1, x)
      [] i = 1 -> TrySubscript(g, y - 1, x + 1)
      [] i = 2 -> TrySubscript(g, y, x + 1)
      [] i = 3 -> TrySubscript(g, y + 1, x + 1)
      [] i = 4 -> TrySubscript(g, y + 1, x)
      [] i = 5 -> TrySubscript(g, y + 1, x - 1)
      [] i = 6 -> TrySubscript(g, y, x - 1)
      [] i = 7 -> TrySubscript(g, y - 1, x - 1)

\* for i in range(8): living_neighbours += check_neighbour(y, x, i, grid)
RECURSIVE CountNeighbours(_, _, _, _)
CountNeighbours(y, x, i, g) ==
    IF i >= 8 THEN 0
    ELSE check_neighbour(y, x, i, g) + CountNeighbours(y, x, i + 1, g)

\* ScanCell with the decision applied to the grid at once, so that later cells
\* are decided on a partially updated grid.
ScanCellInPlace(st, y, x) ==
    LET living_neighbours == CountNeighbours(y, x, 0, st.grid) IN
    IF Subscript(st.grid, y, x) = 1
    THEN IF living_neighbours < 2 \/ living_neighbours > 3
         THEN [st EXCEPT !.living = @ + 1,
                         !.killed = Append(@, <<y, x>>),
                         !.grid = SetItem(@, y, x, 0)]
         ELSE [st EXCEPT !.living = @ + 1]
    ELSE IF living_neighbours = 3
         THEN [st EXCEPT !.revived = Append(@, <<y, x>>),
                         !.grid = SetItem(@, y, x, 1)]
         ELSE st

\* ScanCell with the living counter incremented only for the cells that survive.
ScanCellCountSurvivors(st, y, x) ==
    LET living_neighbours == CountNeighbours(y, x, 0, st.grid) IN
    IF Subscript(st.grid, y, x) = 1
    THEN IF living_neighbours < 2 \/ living_neighbours > 3
         THEN [st EXCEPT !.killed = Append(@, <<y, x>>)]
         ELSE [st EXCEPT !.living = @ + 1]
    ELSE [st EXCEPT
            !.revived = IF living_neighbours = 3
                        THEN Append(@, <<y, x>>) ELSE @]

\* ScanCell with the ALIVE cells that survive put on the list of the cells to
\* revive.
ScanCellReviveSurvivors(st, y, x) ==
    LET living_neighbours == CountNeighbours(y, x, 0, st.grid) IN
    IF Subscript(st.grid, y, x) = 1
    THEN IF living_neighbours < 2 \/ living_neighbours > 3
         THEN [st EXCEPT !.living = @ + 1, !.killed = Append(@, <<y, x>>)]
         ELSE [st EXCEPT !.living = @ + 1, !.revived = Append(@, <<y, x>>)]
    ELSE [st EXCEPT
            !.revived = IF living_neighbours = 3
                        THEN Append(@, <<y, x>>) ELSE @]

\* The body of the inner loop of calculate_next_generation for the cell y, x.
\* st holds the grid (a mutable list which every iteration reads afresh)
\* and the three accumulators.
ScanCell(st, y, x) ==
    LET living_neighbours == CountNeighbours(y, x, 0, st.grid) IN
    IF Subscript(st.grid, y, x) = 1
    THEN [st EXCEPT
            !.living = @ + 1,
            !.killed = IF living_neighbours < 2 \/ living_neighbours > 3
                       THEN Append(@, <<y, x>>) ELSE @]
    ELSE [st EXCEPT
            !.revived = IF living_neighbours = 3
                        THEN Append(@, <<y, x>>) ELSE @]

\* for x in range(len(grid[y])), from column x on.
RECURSIVE ScanRow(_, _, _)
ScanRow(st, y, x) ==
    IF x >= Len(st.grid[y + 1]) THEN st
    ELSE ScanRow(ScanCell(st, y, x), y, x + 1)

\* for y in range(len(grid)), from row y on.
RECURSIVE ScanRows(_, _)
ScanRows(st, y) ==
    IF y >= Len(st.grid) THEN st
    ELSE ScanRows(ScanRow(st, y, 0), y + 1)

calculate_next_generation(g) ==
    ScanRows([grid |-> g, killed |-> <<>>, revived |-> <<>>, living |-> 0], 0)

\* for cell in range(len(cells)): grid[cells[cell][0]][cells[cell][1]] = v
RECURSIVE AssignCells(_, _, _, _)
AssignCells(g, cells, k, v) ==
    IF k > Len(cells) THEN g
    ELSE AssignCells(SetItem(g, cells[k][1], cells[k][2], v), cells, k + 1, v)

create_next_generation(g, killed, revived) ==
    AssignCells(AssignCells(g, killed, 1, 0), revived, 1, 1)

----------------------------------------------------------------------------
(* The generation loop of run_simulation.                                  *)

\* cells_to_be_killed, cells_to_be_revived, living_... = calculate_next_generation(grid)
RunCalculate ==
    /\ pc = "calculate"
    /\ \E r \in {calculate_next_generation(grid)} :
         /\ grid' = r.grid
         /\ cells_to_be_killed' = r.killed
         /\ cells_to_be_revived' = r.revived
         /\ living_cells_before_next_generation' = r.living
    /\ pre_step_grid' = grid
    /\ pc' = "create"
    /\ UNCHANGED <<cells_alive, seedVars, fileVars, genVars, guiVars>>

\* create_next_generation(grid, cells_to_be_killed, cells_to_be_revived)
RunCreate ==
    /\ pc = "create"
    /\ grid' = create_next_generation(grid, cells_to_be_killed, cells_to_be_revived)
    /\ pc' = "count"
    /\ UNCHANGED <<stepVars, seedVars, fileVars, genVars, guiVars>>

\* cells_alive = living_cells_before_next_generation + len(revived) - len(killed)
RunCount ==
    /\ pc = "count"
    /\ cells_alive' = living_cells_before_next_generation
                        + Len(cells_to_be_revived) - Len(cells_to_be_killed)
    /\ pc' = "draw"
    /\ UNCHANGED <<grid, cells_to_be_killed, cells_to_be_revived,
                   living_cells_before_next_generation, pre_step_grid,
                   seedVars, fileVars, genVars, guiVars>>

\* The rest of the iteration (drawing, the frame-rate wait, the reset at the
\* top of the loop) does not touch the grid or the locals above.
RunNextIteration ==
    /\ pc = "draw"
    /\ pc' = "calculate"
    /\ UNCHANGED <<grid, stepVars, seedVars, fileVars, genVars, guiVars>>

\* [0] * canvas_width, canvas_height times
EmptyGrid(height, width) == [y \in 1..height |-> [x \in 1..width |-> 0]]

\* Every grid of the given dimensions.
Grids(height, width) == [1..height -> [1..width -> {0, 1}]]

\* The grid of the given dimensions whose ALIVE cells are the coordinates in alive.
GridOf(height, width, alive) ==
    [y \in 1..height |-> [x \in 1..width |->
        IF <<y - 1, x - 1>> \in alive THEN 1 ELSE 0]]

\* create_gui: the settings hold the defaults.
InitSettings ==
    /\ min_auto_seed_percent = DEFAULT_MIN_AUTO_SEED_PERCENT
    /\ max_auto_seed_percent = DEFAULT_MAX_AUTO_SEED_PERCENT
    /\ max_framerate = DEFAULT_MAX_FRAMERATE

\* initialize and create_gui: no cell is drawn, both signals are False, the
\* Next frame button is not shown, and main calls game_loop in mode "new".
InitWindow ==
    /\ canvas = [height |-> DEFAULT_CANVAS_HEIGHT, width |-> DEFAULT_CANVAS_WIDTH,
                 items |-> {}]
    /\ drawn_cells = <<>>
    /\ pause_signal = FALSE
    /\ next_frame_signal = FALSE
    /\ next_frame_button = FALSE
    /\ mode = "new"
    /\ stack = <<>>
    /\ history = <<>>
    /\ superseded = FALSE

\* run_simulation is entered; nothing has been calculated, saved or loaded yet.
InitLoop ==
    /\ InitSettings
    /\ InitWindow
    /\ amount_of_cells_to_seed = 0
    /\ pc = "calculate"
    /\ cells_to_be_killed = <<>>
    /\ cells_to_be_revived = <<>>
    /\ living_cells_before_next_generation = 0
    /\ cells_alive = 0
    /\ pre_step_grid = <<>>
    /\ current_seed = <<>>
    /\ seed_file = <<>>
    /\ written = <<>>

InitStep ==
    /\ canvas_height \in 1..MaxCells
    /\ canvas_width \in 1..MaxCells
    /\ canvas_height * canvas_width <= MaxCells
    /\ grid \in Grids(canvas_height, canvas_width)
    /\ InitLoop

\* A 2x2 block with its top-left cell at (by, bx).
Block(by, bx) == {<<by, bx>>, <<by, bx + 1>>, <<by + 1, bx>>, <<by + 1, bx + 1>>}

InitBlock ==
    /\ canvas_height \in 2..MaxBlockSide
    /\ canvas_width \in 2..MaxBlockSide
    /\ \E by \in 0..(canvas_height - 2), bx \in 0..(canvas_width - 2) :
           grid = GridOf(canvas_height, canvas_width, Block(by, bx))
    /\ InitLoop

HorizontalBlinker == {<<2, 1>>, <<2, 2>>, <<2, 3>>}
VerticalBlinker == {<<1, 2>>, <<2, 2>>, <<3, 2>>}

InitBlinker ==
    /\ canvas_height \in 5..MaxBlinkerSide
    /\ canvas_width \in 5..MaxBlinkerSide
    /\ grid = GridOf(canvas_height, canvas_width, HorizontalBlinker)
    /\ InitLoop

NextStep == RunCalculate \/ RunCreate \/ RunCount \/ RunNextIteration

Spec == InitStep /\ [][NextStep]_vars
SpecBlock == InitBlock /\ [][NextStep]_vars
SpecBlinker == InitBlinker /\ [][NextStep]_vars

----------------------------------------------------------------------------
(* create_simulation (grid creation) and apply_seed.                       *)

\* for cell in seed: grid[cell[0]][cell[1]] = 1, from the k-th cell on.  The
\* assignment raises IndexError as the subscript does; the cells before it
\* have been assigned.
RECURSIVE ApplySeedFrom(_, _, _)
ApplySeedFrom(g, seed, k) ==
    IF k > Len(seed) THEN [grid |-> g, raised |-> FALSE]
    ELSE IF SubscriptRaises(g, seed[k][1], seed[k][2])
         THEN [grid |-> g, raised |-> TRUE]
         ELSE ApplySeedFrom(SetItem(g, seed[k][1], seed[k][2], 1), seed, k + 1)

apply_seed(g, seed) == ApplySeedFrom(g, seed, 1)

\* for i in range(canvas_height): grid.append([0] * canvas_width)
CreateGrid ==
    /\ pc = "create_grid"
    /\ grid' = EmptyGrid(canvas_height, canvas_width)
    /\ pc' = "apply_seed"
    /\ UNCHANGED <<stepVars, seedVars, fileVars, genVars, guiVars>>

\* apply_seed(grid, current_seed); return grid; then game_loop calls
\* run_simulation, which draws the first frame.  An IndexError is not caught
\* anywhere in the program.
ApplySeed ==
    /\ pc = "apply_seed"
    /\ \E r \in {apply_seed(grid, current_seed)} :
         /\ grid' = r.grid
         /\ pc' = IF r.raised THEN "IndexError" ELSE "first_draw"
    /\ UNCHANGED <<stepVars, seedVars, fileVars, genVars, guiVars>>

\* Every list of at most n elements of S.
ListsOf(S, n) == UNION {[1..k -> S] : k \in 0..n}

InitSeed ==
    /\ canvas_height \in 1..MaxSeedSide
    /\ canvas_width \in 1..MaxSeedSide
    /\ current_seed \in ListsOf((0..canvas_height) \X (0..canvas_width), MaxSeedLen)
    /\ grid = <<>>
    /\ pc = "create_grid"
    /\ cells_to_be_killed = <<>>
    /\ cells_to_be_revived = <<>>
    /\ living_cells_before_next_generation = 0
    /\ cells_alive = 0
    /\ pre_step_grid = <<>>
    /\ seed_file = <<>>
    /\ written = <<>>
    /\ InitSettings
    /\ InitWindow
    /\ amount_of_cells_to_seed = 0

NextSeed == CreateGrid \/ ApplySeed

SpecSeed == InitSeed /\ [][NextSeed]_vars

----------------------------------------------------------------------------
(* The seed file: save_seed_to_file and load_seed_from_file.  A text is a  *)
(* sequence of characters (strings of length one).                         *)

DigitChars == <<"0", "1", "2", "3", "4", "5", "6", "7", "8", "9">>

\* str(n) of an int: its decimal digits, after a minus sign when negative.
RECURSIVE str(_)
str(n) ==
    IF n < 0 THEN <<"-">> \o str(0 - n)
    ELSE IF n < 10 THEN <<DigitChars[n + 1]>>
    ELSE Append(str(n \div 10), DigitChars[(n % 10) + 1])

\* "%s" % cell, the str() of a list of two ints: "[y, x]".
StrCell(cell) ==
    <<"[">> \o str(cell[1]) \o <<",", " ">> \o str(cell[2]) \o <<"]">>

\* for cell in current_seed: file.write("%s\n" % cell), from the k-th cell on.
RECURSIVE WriteCells(_, _)
WriteCells(seed, k) ==
    IF k > Len(seed) THEN <<>>
    ELSE StrCell(seed[k]) \o <<"\n">> \o WriteCells(seed, k + 1)

\* The text that save_seed_to_file writes.
save_seed_to_file(seed, height, width) ==
    <<"[">> \o str(height) \o <<",", " ">> \o str(width) \o <<"]", "\n">>
        \o WriteCells(seed, 1)

\* Iterating a text file: the lines, each with its newline; text[k..] is still
\* to be read and line is the part of the current line read so far.
RECURSIVE FileLines(_, _, _)
FileLines(text, k, line) ==
    IF k > Len(text) THEN (IF line = <<>> THEN <<>> ELSE <<line>>)
    ELSE IF text[k] = "\n"
         THEN <<Append(line, "\n")>> \o FileLines(text, k + 1, <<>>)
         ELSE FileLines(text, k + 1, Append(line, text[k]))

\* line.replace("'", "").replace("\n", "").replace("[", "").replace("]", "").replace(" ", "")
RemoveCharacters(line) ==
    LET Kept(ch) == ch \notin {"'", "\n", "[", "]", " "} IN SelectSeq(line, Kept)

\* cell.split(","): the fields between the commas, at least one.
RECURSIVE Split(_, _, _)
Split(text, k, field) ==
    IF k > Len(text) THEN <<field>>
    ELSE IF text[k] = ","
         THEN <<field>> \o Split(text, k + 1, <<>>)
         ELSE Split(text, k + 1, Append(field, text[k]))

\* The digits of an int literal: the text without its sign.
Unsigned(text) ==
    IF Len(text) > 0 /\ text[1] \in {"-", "+"} THEN Tail(text) ELSE text

\* int(text) raises ValueError: over the characters of a seed file, text is an
\* int literal iff it is an optional sign followed by one or more digits.
IntRaises(text) ==
    \/ Unsigned(text) = <<>>
    \/ \E k \in 1..Len(Unsigned(text)) :
          \A d \in 1..10 : DigitChars[d] # Unsigned(text)[k]

\* The value of the first k digits of a digit string.
RECURSIVE DigitsValue(_, _)
DigitsValue(digits, k) ==
    IF k = 0 THEN 0
    ELSE 10 * DigitsValue(digits, k - 1)
           + ((CHOOSE d \in 1..10 : DigitChars[d] = digits[k]) - 1)

\* int() reading only the last digit of its argument.
intLastDigit(text) ==
    LET digits == Unsigned(text)
        value == (CHOOSE d \in 1..10 : DigitChars[d] = digits[Len(digits)]) - 1
    IN  IF Len(text) > 0 /\ text[1] = "-" THEN 0 - value ELSE value

\* int(text), when it does not raise.
int(text) ==
    LET value == DigitsValue(Unsigned(text), Len(Unsigned(text)))
    IN  IF Len(text) > 0 /\ text[1] = "-" THEN 0 - value ELSE value

\* The body of the loop of load_seed_from_file for one line.  st holds
\* current_seed, canvas_height and canvas_width (bound tells whether they have
\* been assigned) and the exception raised, "" for none.
LoadLine(st, line_number, line) ==
    LET cell == Split(RemoveCharacters(line), 1, <<>>) IN
    IF IntRaises(cell[1]) THEN [st EXCEPT !.raised = "ValueError"]
    ELSE IF Len(cell) < 2 THEN [st EXCEPT !.raised = "IndexError"]
    ELSE IF IntRaises(cell[2]) THEN [st EXCEPT !.raised = "ValueError"]
    ELSE IF line_number = 0
         THEN [st EXCEPT !.canvas_height = int(cell[1]),
                         !.canvas_width = int(cell[2]),
                         !.bound = TRUE]
         ELSE [st EXCEPT !.current_seed = Append(@, <<int(cell[1]), int(cell[2])>>)]

\* for line_number, line in enumerate(file), from the k-th line on, until a
\* line raises.
RECURSIVE LoadLines(_, _, _)
LoadLines(st, lines, k) ==
    IF k > Len(lines) \/ st.raised # "" THEN st
    ELSE LoadLines(LoadLine(st, k - 1, lines[k]), lines, k + 1)

\* load_seed_from_file on the text of the chosen file: current_seed is cleared
\* and refilled in place; returning canvas_height, canvas_width raises
\* UnboundLocalError when no line assigned them.
load_seed_from_file(text) ==
    LET st == LoadLines([current_seed |-> <<>>, canvas_height |-> 0,
                         canvas_width |-> 0, bound |-> FALSE, raised |-> ""],
                        FileLines(text, 1, <<>>), 1)
    IN  IF st.raised = "" /\ ~st.bound
        THEN [st EXCEPT !.raised = "UnboundLocalError"]
        ELSE st

\* generate_seed: saved_seed_file_path = save_seed_to_file(current_seed, ...)
SaveSeedToFile ==
    /\ pc = "save"
    /\ seed_file' = save_seed_to_file(current_seed, canvas_height, canvas_width)
    /\ written' = <<current_seed, canvas_height, canvas_width>>
    /\ pc' = "load"
    /\ UNCHANGED <<grid, stepVars, seedVars, genVars, guiVars>>

\* create_simulation, mode "load": canvas_height = 0, canvas_width = 0, then
\* canvas_height, canvas_width = load_seed_from_file(current_seed)
LoadSeedFromFile ==
    /\ pc = "load"
    /\ \E r \in {load_seed_from_file(seed_file)} :
         /\ current_seed' = r.current_seed
         /\ canvas_height' = IF r.raised = "" THEN r.canvas_height ELSE 0
         /\ canvas_width' = IF r.raised = "" THEN r.canvas_width ELSE 0
         /\ pc' = IF r.raised = "" THEN "loaded" ELSE r.raised
    /\ UNCHANGED <<grid, stepVars, fileVars, genVars, guiVars>>

\* The numbers of the codec specification: 0 and the numbers from 9, the
\* largest of one digit, to MaxCodecValue.
CodecValues == {0} \cup (9..MaxCodecValue)

InitCodec ==
    /\ canvas_height \in CodecValues \cup {DEFAULT_CANVAS_HEIGHT}
    /\ canvas_width \in CodecValues \cup {DEFAULT_CANVAS_HEIGHT}
    /\ current_seed \in ListsOf(CodecValues \X CodecValues, MaxCodecSeedLen)
    /\ grid = <<>>
    /\ pc = "save"
    /\ cells_to_be_killed = <<>>
    /\ cells_to_be_revived = <<>>
    /\ living_cells_before_next_generation = 0
    /\ cells_alive = 0
    /\ pre_step_grid = <<>>
    /\ seed_file = <<>>
    /\ written = <<>>
    /\ InitSettings
    /\ InitWindow
    /\ amount_of_cells_to_seed = 0

NextCodec == SaveSeedToFile \/ LoadSeedFromFile

SpecCodec == InitCodec /\ [][NextCodec]_vars

----------------------------------------------------------------------------
(* Loading a seed file chosen by the user: create_simulation in mode       *)
(* "load", from load_seed_from_file to apply_seed.                         *)

\* The load specification reads every text of at most MaxFileLen characters
\* out of FileChars.
MaxFileLen == 5
FileChars == {"0", "1", ",", "\n", "x"}

\* create_simulation after the seed is there (pc "loaded" in mode "load",
\* "seeded" otherwise): canvas.config(height=canvas_height, width=canvas_width);
\* the values are not looked at.
ConfigCanvas ==
    /\ pc \in {"loaded", "seeded"}
    /\ canvas' = [canvas EXCEPT !.height = canvas_height, !.width = canvas_width]
    /\ pc' = "create_grid"
    /\ UNCHANGED <<grid, stepVars, seedVars, fileVars, genVars, max_framerate,
                   pause_signal, next_frame_signal, next_frame_button,
                   drawn_cells, mode, stack, history,
                   superseded>>

InitLoad ==
    /\ seed_file \in ListsOf(FileChars, MaxFileLen)
    /\ pc = "load"
    /\ grid = <<>>
    /\ canvas_height = 0
    /\ canvas_width = 0
    /\ current_seed = <<>>
    /\ cells_to_be_killed = <<>>
    /\ cells_to_be_revived = <<>>
    /\ living_cells_before_next_generation = 0
    /\ cells_alive = 0
    /\ pre_step_grid = <<>>
    /\ written = <<>>
    /\ InitSettings
    /\ InitWindow
    /\ amount_of_cells_to_seed = 0

NextLoad == LoadSeedFromFile \/ ConfigCanvas \/ CreateGrid \/ ApplySeed

SpecLoad == InitLoad /\ [][NextLoad]_vars

----------------------------------------------------------------------------
(* generate_seed.  The number of cells is computed in floating point:      *)
(* percent / 100 is the double nearest to the quotient and the product     *)
(* with the int canvas_height * canvas_width is rounded to a double again, *)
(* before int() truncates it.  A positive double is modelled as its 53     *)
(* binary digits m, most significant first, and the exponent exp of the    *)
(* last digit: its value is m * 2^exp.  The quotient's digits come from    *)
(* binary long division, where the remainder after the place 2^-j is       *)
(* (a * 2^j) mod d.                                                        *)

\* The number of binary digits of a double.
DoubleDigits == 53

\* The number of binary digits of n, for 0 <= n < 2^31.
BitLength(n) ==
    CHOOSE l \in 1..31 : n \div (2 ^ (l - 1)) <= 1 /\ (l = 1 \/ n \div (2 ^ (l - 1)) = 1)

\* The binary digits of n >= 0, most significant first.
Bits(n) == [k \in 1..BitLength(n) |-> (n \div (2 ^ (BitLength(n) - k))) % 2]

\* The value of the binary digits lo..hi of bits.
RECURSIVE BitsValue(_, _, _)
BitsValue(bits, lo, hi) ==
    IF lo > hi THEN 0
    ELSE IF lo = hi THEN bits[lo]
    ELSE BitsValue(bits, lo, (lo + hi) \div 2) * (2 ^ (hi - (lo + hi) \div 2))
           + BitsValue(bits, (lo + hi) \div 2 + 1, hi)

\* bits + 1: the last 0 becomes 1 and the digits after it 0; one digit longer
\* when every digit was 1.
Increment(bits) ==
    LET zeros == {k \in 1..Len(bits) : bits[k] = 0} IN
    IF zeros = {} THEN <<1>> \o [k \in 1..Len(bits) |-> 0]
    ELSE [k \in 1..Len(bits) |->
            IF \E z \in zeros : z > k THEN bits[k]
            ELSE IF bits[k] = 0 THEN 1 ELSE 0]

\* Round to nearest, ties to even: kept holds the first DoubleDigits digits,
\* exp the exponent of its last digit, guard the next digit, and sticky tells
\* whether any digit after the guard is 1.
RoundToDouble(kept, exp, guard, sticky) ==
    IF guard = 1 /\ (sticky \/ kept[DoubleDigits] = 1)
    THEN IF \A k \in 1..DoubleDigits : kept[k] = 1
         THEN [m |-> SubSeq(Increment(kept), 1, DoubleDigits), exp |-> exp + 1]
         ELSE [m |-> Increment(kept), exp |-> exp]
    ELSE [m |-> kept, exp |-> exp]

\* 2^k mod d
RECURSIVE PowerOfTwoMod(_, _)
PowerOfTwoMod(k, d) ==
    IF k = 0 THEN 1 % d
    ELSE IF k % 2 = 0 THEN (PowerOfTwoMod(k \div 2, d) ^ 2) % d
    ELSE (2 * PowerOfTwoMod(k - 1, d)) % d

\* The remainder of the long division of a by d after the binary place 2^-j:
\* (a * 2^j) mod d.
FractionRemainder(a, d, j) == ((a % d) * PowerOfTwoMod(j, d)) % d

\* The binary digit of a / d at the place 2^e.
QuotientDigit(a, d, e) ==
    IF e >= 0 THEN ((a \div d) \div (2 ^ e)) % 2
    ELSE IF 2 * FractionRemainder(a, d, (0 - e) - 1) >= d THEN 1 ELSE 0

\* The place of the first digit 1 of a / d, for 0 < a, 0 < d < 2^31.
TopExponent(a, d) ==
    IF a >= d THEN BitLength(a \div d) - 1
    ELSE 0 - (CHOOSE j \in 1..31 :
                 /\ QuotientDigit(a, d, 0 - j) = 1
                 /\ \A i \in 1..(j - 1) : QuotientDigit(a, d, 0 - i) = 0)

\* The digits of a / d from the place 2^top on, rounded.
TrueDivideFrom(a, d, top) ==
    RoundToDouble([k \in 1..DoubleDigits |-> QuotientDigit(a, d, top - (k - 1))],
                  top - (DoubleDigits - 1),
                  QuotientDigit(a, d, top - DoubleDigits),
                  FractionRemainder(a, d, DoubleDigits - top) > 0)

\* a / d for ints a > 0 and d > 0 (true division): the double nearest to the
\* quotient.
TrueDivide(a, d) == TrueDivideFrom(a, d, TopExponent(a, d))

\* The digits lo..hi of m, times n, plus carry: the digits of the product at
\* these places and the carry out of them.  The right half is multiplied
\* first and its carry, which is never negative, goes into the left half.
RECURSIVE MultiplyFrom(_, _, _, _, _)
JoinProducts(left, right) ==
    [carry |-> left.carry, out |-> left.out \o right.out]

MultiplyLeft(n, m, lo, mid, right) ==
    IF right.carry < 0 THEN right
    ELSE JoinProducts(MultiplyFrom(n, m, lo, mid, right.carry), right)

MultiplyFrom(n, m, lo, hi, carry) ==
    IF lo = hi
    THEN [carry |-> (m[lo] * n + carry) \div 2, out |-> <<(m[lo] * n + carry) % 2>>]
    ELSE MultiplyLeft(n, m, lo, (lo + hi) \div 2,
                      MultiplyFrom(n, m, (lo + hi) \div 2 + 1, hi, carry))

\* The digits of a product whose last carry is in product.carry.
ProductDigits(product) ==
    IF product.carry = 0 THEN product.out ELSE Bits(product.carry) \o product.out

\* The digits of an exact product, the exponent of the last being exp, rounded.
RoundProduct(digits, exp) ==
    RoundToDouble(SubSeq(digits, 1, DoubleDigits),
                  exp + (Len(digits) - DoubleDigits),
                  IF Len(digits) > DoubleDigits THEN digits[DoubleDigits + 1] ELSE 0,
                  \E k \in (DoubleDigits + 2)..Len(digits) : digits[k] = 1)

\* n * f for an int n > 0 and a double f: the exact product, rounded.
IntTimesDouble(n, f) ==
    RoundProduct(ProductDigits(MultiplyFrom(n, f.m, 1, DoubleDigits, 0)), f.exp)

\* int(f) of a positive double: the digits before the binary point.
IntOfDouble(f) ==
    IF f.exp >= 0 THEN BitsValue(f.m, 1, DoubleDigits) * (2 ^ f.exp)
    ELSE IF 0 - f.exp >= DoubleDigits THEN 0
    ELSE BitsValue(f.m, 1, DoubleDigits + f.exp)

Abs(n) == IF n < 0 THEN 0 - n ELSE n

\* int((canvas_height * canvas_width) * (percent / 100)); the sign of the
\* product is that of its factors and int() truncates towards zero.
alive_cells(cells, percent) ==
    IF cells = 0 \/ percent = 0 THEN 0
    ELSE LET magnitude ==
                 IntOfDouble(IntTimesDouble(Abs(cells), TrueDivide(Abs(percent), 100)))
         IN  IF (cells < 0) # (percent < 0) THEN 0 - magnitude ELSE magnitude

\* current_seed.clear(); min_alive_cells = ...; max_alive_cells = ...;
\* amount_of_cells_to_seed = random.randint(min_alive_cells, max_alive_cells),
\* which raises ValueError when the range is empty.
GenerateAmount ==
    /\ pc = "generate"
    /\ current_seed' = <<>>
    /\ \E min_alive_cells \in {alive_cells(canvas_height * canvas_width,
                                           min_auto_seed_percent)},
          max_alive_cells \in {alive_cells(canvas_height * canvas_width,
                                           max_auto_seed_percent)} :
         IF min_alive_cells > max_alive_cells
         THEN /\ pc' = "ValueError"
              /\ UNCHANGED amount_of_cells_to_seed
         ELSE /\ pc' = "generate_cells"
              /\ amount_of_cells_to_seed' \in min_alive_cells..max_alive_cells
    /\ UNCHANGED <<grid, stepVars, canvas_height, canvas_width, fileVars,
                   min_auto_seed_percent, max_auto_seed_percent, guiVars>>

\* One iteration of for i in range(amount_of_cells_to_seed): y and x are drawn
\* with random.randint(0, canvas_height - 1) and random.randint(0,
\* canvas_width - 1), which raise ValueError on an empty range; [y, x] is
\* appended.  i is the length of current_seed.
GenerateCell ==
    /\ pc = "generate_cells"
    /\ Len(current_seed) < amount_of_cells_to_seed
    /\ IF canvas_height - 1 < 0 \/ canvas_width - 1 < 0
       THEN /\ pc' = "ValueError"
            /\ UNCHANGED current_seed
       ELSE /\ \E y \in 0..(canvas_height - 1), x \in 0..(canvas_width - 1) :
                 current_seed' = Append(current_seed, <<y, x>>)
            /\ UNCHANGED pc
    /\ UNCHANGED <<grid, stepVars, canvas_height, canvas_width, fileVars,
                   genVars, guiVars>>

\* The loop is over: save_seed_to_file(current_seed, canvas_height,
\* canvas_width), and generate_seed returns to create_simulation.
GenerateSave ==
    /\ pc = "generate_cells"
    /\ Len(current_seed) >= amount_of_cells_to_seed
    /\ seed_file' = save_seed_to_file(current_seed, canvas_height, canvas_width)
    /\ written' = <<current_seed, canvas_height, canvas_width>>
    /\ pc' = "seeded"
    /\ UNCHANGED <<grid, stepVars, seedVars, genVars, guiVars>>

\* The amount specification computes the number of cells for every canvas of
\* 1..MaxAmountSide rows and columns and every pair of SeedPercents.
MaxAmountSide == 10
MaxSeedPercent == 29
SeedPercents == {0 - DEFAULT_MIN_AUTO_SEED_PERCENT, 0, DEFAULT_MIN_AUTO_SEED_PERCENT,
                 DEFAULT_MAX_AUTO_SEED_PERCENT, MaxSeedPercent}

InitAmount ==
    /\ canvas_height \in 1..MaxAmountSide
    /\ canvas_width \in 1..MaxAmountSide
    /\ min_auto_seed_percent \in SeedPercents
    /\ max_auto_seed_percent \in SeedPercents
    /\ max_framerate = DEFAULT_MAX_FRAMERATE
    /\ amount_of_cells_to_seed = 0
    /\ pc = "generate"
    /\ grid = <<>>
    /\ current_seed = <<>>
    /\ cells_to_be_killed = <<>>
    /\ cells_to_be_revived = <<>>
    /\ living_cells_before_next_generation = 0
    /\ cells_alive = 0
    /\ pre_step_grid = <<>>
    /\ seed_file = <<>>
    /\ written = <<>>
    /\ canvas = [height |-> canvas_height, width |-> canvas_width, items |-> {}]
    /\ drawn_cells = <<>>
    /\ pause_signal = FALSE
    /\ next_frame_signal = FALSE
    /\ next_frame_button = FALSE
    /\ mode = "new"
    /\ stack = <<>>
    /\ history = <<>>
    /\ superseded = FALSE

SpecAmount == InitAmount /\ [][GenerateAmount]_vars

----------------------------------------------------------------------------
(* The window: draw_canvas, the buttons, and game_loop called from a       *)
(* button while run_simulation is inside canvas.update().                  *)
(*                                                                         *)
(* The canvas holds its configured height and width and its items, the     *)
(* rectangles <<id, y, x>>.  canvas.winfo_height() - 2 is taken to be the   *)
(* configured height, as the program assumes.  The id that                 *)
(* canvas.create_rectangle returns is new; the program only stores ids and *)
(* hands them back to canvas.delete, so the smallest id that is neither on *)
(* the canvas nor stored in drawn_cells stands for it.                     *)

\* rectangle_name = str(y) + "_" + str(x)
rectangle_name(y, x) == str(y) \o <<"_">> \o str(x)

\* The values of a dict.
Values(dict) == {dict[name] : name \in DOMAIN dict}

\* dict[name] = value
DictSet(dict, name, value) ==
    [n \in (DOMAIN dict) \cup {name} |-> IF n = name THEN value ELSE dict[n]]

\* dict.pop(name)
DictPop(dict, name) ==
    IF (DOMAIN dict) \ {name} = {} THEN <<>>
    ELSE [n \in (DOMAIN dict) \ {name} |-> dict[n]]

\* canvas.delete(id): the item with this id, if there is one, is removed.
CanvasDelete(items, id) == {item \in items : item[1] # id}

\* The id of a rectangle that canvas.create_rectangle creates.
NewItemId(st) ==
    LET used == {item[1] : item \in st.items} \cup Values(st.drawn_cells)
        free == {id \in 1..(Cardinality(used) + 1) : id \notin used}
    IN  CHOOSE id \in free : \A other \in free : id <= other

\* draw_canvas that creates the rectangle of an ALIVE cell without looking
\* whether it is registered in drawn_cells.
DrawCellAlways(st, g, y, x) ==
    LET name == rectangle_name(y, x)
        exists == name \in DOMAIN st.drawn_cells
    IN  IF Subscript(g, y, x) = 1
        THEN [drawn_cells |-> DictSet(st.drawn_cells, name, NewItemId(st)),
              items |-> st.items \cup {<<NewItemId(st), y, x>>}]
        ELSE IF exists
             THEN [drawn_cells |-> DictPop(st.drawn_cells, name),
                   items |-> CanvasDelete(st.items, st.drawn_cells[name])]
             ELSE st

\* draw_canvas that deletes the rectangle of a DEAD cell but keeps its entry
\* in drawn_cells.
DrawCellKeepEntry(st, g, y, x) ==
    LET name == rectangle_name(y, x)
        exists == name \in DOMAIN st.drawn_cells
    IN  IF Subscript(g, y, x) = 1
        THEN IF ~exists
             THEN [drawn_cells |-> DictSet(st.drawn_cells, name, NewItemId(st)),
                   items |-> st.items \cup {<<NewItemId(st), y, x>>}]
             ELSE st
        ELSE IF exists
             THEN [st EXCEPT !.items = CanvasDelete(@, st.drawn_cells[name])]
             ELSE st

\* The body of the inner loop of draw_canvas for the cell y, x; st holds
\* drawn_cells and the items of the canvas.
DrawCell(st, g, y, x) ==
    LET name == rectangle_name(y, x)
        exists == name \in DOMAIN st.drawn_cells
    IN  IF Subscript(g, y, x) = 1
        THEN IF ~exists
             THEN [drawn_cells |-> DictSet(st.drawn_cells, name, NewItemId(st)),
                   items |-> st.items \cup {<<NewItemId(st), y, x>>}]
             ELSE st
        ELSE IF exists
             THEN [drawn_cells |-> DictPop(st.drawn_cells, name),
                   items |-> CanvasDelete(st.items, st.drawn_cells[name])]
             ELSE st

\* for x in range(len(grid[y])), from column x on.
RECURSIVE DrawRow(_, _, _, _)
DrawRow(st, g, y, x) ==
    IF x >= Len(g[y + 1]) THEN st
    ELSE DrawRow(DrawCell(st, g, y, x), g, y, x + 1)

\* for y in range(len(grid)), from row y on.
RECURSIVE DrawRows(_, _, _)
DrawRows(st, g, y) ==
    IF y >= Len(g) THEN st
    ELSE DrawRows(DrawRow(st, g, y, 0), g, y + 1)

draw_canvas(items, g, drawn) ==
    DrawRows([drawn_cells |-> drawn, items |-> items], g, 0)

\* The local variables of the running game_loop call, create_simulation and
\* run_simulation included.
Locals ==
    [grid |-> grid, pc |-> pc,
     cells_to_be_killed |-> cells_to_be_killed,
     cells_to_be_revived |-> cells_to_be_revived,
     living_cells_before_next_generation |-> living_cells_before_next_generation,
     cells_alive |-> cells_alive, pre_step_grid |-> pre_step_grid,
     canvas_height |-> canvas_height, canvas_width |-> canvas_width,
     amount_of_cells_to_seed |-> amount_of_cells_to_seed, mode |-> mode,
     history |-> history, superseded |-> superseded]

\* The exceptions that the program raises and never catches.
Exceptions == {"ValueError", "IndexError", "UnboundLocalError",
               "FileNotFoundError", "ZeroDivisionError"}

\* The places where run_simulation is inside canvas.update().
Updating == {"first_update", "pause_update", "update", "frame_update"}

windowVars == <<max_framerate, pause_signal, next_frame_signal, next_frame_button,
                canvas, drawn_cells>>
settingsVars == <<min_auto_seed_percent, max_auto_seed_percent, max_framerate>>

\* create_simulation that also empties current_seed.
ResetSimulationClearSeed ==
    /\ pc = "create_simulation"
    /\ grid' = <<>>
    /\ canvas' = [canvas EXCEPT
                    !.items = {item \in @ : item[1] \notin Values(drawn_cells)}]
    /\ canvas_height' = IF mode = "load" THEN 0 ELSE canvas.height
    /\ canvas_width' = IF mode = "load" THEN 0 ELSE canvas.width
    /\ current_seed' = <<>>
    /\ pc' = CASE mode = "new" -> "generate"
               [] mode = "load" -> "askopenfilename"
               [] OTHER -> "seeded"
    /\ UNCHANGED <<stepVars, fileVars, genVars, max_framerate,
                   pause_signal, next_frame_signal, next_frame_button,
                   drawn_cells, mode, stack, history,
                   superseded>>

\* create_simulation, up to the choice of the mode: grid = [], the rectangles
\* registered in drawn_cells are deleted from the canvas (drawn_cells itself
\* is left as it is), and the dimensions are 0 in mode "load" and those of
\* the canvas otherwise.
ResetSimulation ==
    /\ pc = "create_simulation"
    /\ grid' = <<>>
    /\ canvas' = [canvas EXCEPT
                    !.items = {item \in @ : item[1] \notin Values(drawn_cells)}]
    /\ canvas_height' = IF mode = "load" THEN 0 ELSE canvas.height
    /\ canvas_width' = IF mode = "load" THEN 0 ELSE canvas.width
    /\ pc' = CASE mode = "new" -> "generate"
               [] mode = "load" -> "askopenfilename"
               [] OTHER -> "seeded"
    /\ UNCHANGED <<stepVars, current_seed, fileVars, genVars, max_framerate,
                   pause_signal, next_frame_signal, next_frame_button,
                   drawn_cells, mode, stack, history,
                   superseded>>

\* The texts of the seed files that the user can choose in the load
\* specifications, apart from the file that the program saved last: a seed
\* for a 1x1 canvas, a seed for a 2x2 canvas and a file with a broken second
\* line.
SeedFiles ==
    {save_seed_to_file(<<<<0, 0>>>>, 1, 1),
     save_seed_to_file(<<<<1, 0>>, <<1, 1>>>>, 2, 2),
     <<"[", "2", ",", " ", "2", "]", "\n", "[", "0", ",", " ", "0", "]", "\n", "x">>}

\* load_seed_from_file: the user chooses a file in the dialog.
AskOpenFilename ==
    /\ pc = "askopenfilename"
    /\ seed_file' \in SeedFiles \cup {seed_file}
    /\ pc' = "load"
    /\ UNCHANGED <<grid, stepVars, seedVars, written, genVars, guiVars>>

\* load_seed_from_file: the user cancels the dialog; root.filename is "",
\* current_seed.clear() runs and open("") raises FileNotFoundError.
CancelOpenFilename ==
    /\ pc = "askopenfilename"
    /\ current_seed' = <<>>
    /\ pc' = "FileNotFoundError"
    /\ UNCHANGED <<grid, stepVars, canvas_height, canvas_width, fileVars,
                   genVars, guiVars>>

\* The history holds the first frame and the MaxHistory generations after it.
MaxHistory == 2

\* run_simulation: draw_canvas(canvas, grid, drawn_cells) of the first frame.
\* create_simulation has returned the grid: the game_loop call that waits in
\* canvas.update(), if there is one, is superseded.
DrawFirstFrame ==
    /\ pc = "first_draw"
    /\ \E r \in {draw_canvas(canvas.items, grid, drawn_cells)} :
         /\ drawn_cells' = r.drawn_cells
         /\ canvas' = [canvas EXCEPT !.items = r.items]
    /\ history' = <<<<grid>>>>
    /\ stack' = IF stack = <<>> THEN stack
                ELSE [stack EXCEPT ![Len(stack)].superseded = TRUE]
    /\ pc' = "first_update"
    /\ UNCHANGED <<grid, stepVars, seedVars, fileVars, genVars, max_framerate,
                   pause_signal, next_frame_signal, next_frame_button, mode,
                   superseded>>

\* The top of the loop without next_frame_signal.set(False).
ResetLoopKeepSignal ==
    /\ pc = "loop_top"
    /\ next_frame_button' = pause_signal
    /\ pc' = IF pause_signal THEN "pause_wait" ELSE "calculate"
    /\ UNCHANGED <<grid, stepVars, seedVars, fileVars, genVars, max_framerate,
                   pause_signal, next_frame_signal, canvas, drawn_cells, mode,
                   stack, history,
                   superseded>>

\* The top of the loop: the Next frame button is removed and
\* next_frame_signal.set(False); if pause_signal.get(), the button is shown
\* again and the wait loop is entered.
ResetLoop ==
    /\ pc = "loop_top"
    /\ next_frame_signal' = FALSE
    /\ next_frame_button' = pause_signal
    /\ pc' = IF pause_signal THEN "pause_wait" ELSE "calculate"
    /\ UNCHANGED <<grid, stepVars, seedVars, fileVars, genVars, max_framerate,
                   pause_signal, canvas, drawn_cells, mode, stack, history,
                   superseded>>

\* A wait loop that is left whatever the signals are.
PauseWaitLeaves ==
    /\ pc = "pause_wait"
    /\ pc' = "calculate"
    /\ UNCHANGED <<grid, stepVars, seedVars, fileVars, genVars, guiVars>>

\* while pause_signal.get() and not next_frame_signal.get(): canvas.update()
PauseWait ==
    /\ pc = "pause_wait"
    /\ pc' = IF pause_signal /\ ~next_frame_signal THEN "pause_update"
             ELSE "calculate"
    /\ UNCHANGED <<grid, stepVars, seedVars, fileVars, genVars, guiVars>>

\* draw_canvas(canvas, grid, drawn_cells) after the generation, then
\* canvas.update().
DrawCanvas ==
    /\ pc = "draw"
    /\ \E r \in {draw_canvas(canvas.items, grid, drawn_cells)} :
         /\ drawn_cells' = r.drawn_cells
         /\ canvas' = [canvas EXCEPT !.items = r.items]
    /\ history' = IF Len(history) <= MaxHistory
                   THEN Append(history, <<grid, cells_to_be_killed, cells_to_be_revived,
                                          living_cells_before_next_generation>>)
                   ELSE history
    /\ pc' = "update"
    /\ UNCHANGED <<grid, stepVars, seedVars, fileVars, genVars, max_framerate,
                   pause_signal, next_frame_signal, next_frame_button, mode, stack,
                   superseded>>

\* max_framerate_calculated = 1 / max_framerate.get(), which raises
\* ZeroDivisionError for 0.
FrameRate ==
    /\ pc = "frame_rate"
    /\ pc' = IF max_framerate = 0 THEN "ZeroDivisionError" ELSE "frame_wait"
    /\ UNCHANGED <<grid, stepVars, seedVars, fileVars, genVars, guiVars>>

\* while loop_time < max_framerate_calculated: canvas.update(); the time that
\* has passed is anything, but it is never less than a negative limit.
FrameWait ==
    /\ pc = "frame_wait"
    /\ \/ max_framerate > 0 /\ pc' = "frame_update"
       \/ pc' = "loop_top"
    /\ UNCHANGED <<grid, stepVars, seedVars, fileVars, genVars, guiVars>>

\* canvas.update() returns: no event is left.
UpdateReturns ==
    /\ pc \in Updating
    /\ pc' = CASE pc = "first_update" -> "loop_top"
               [] pc = "pause_update" -> "pause_wait"
               [] pc = "update" -> "frame_rate"
               [] pc = "frame_update" -> "frame_wait"
    /\ UNCHANGED <<grid, stepVars, seedVars, fileVars, genVars, guiVars>>

\* get_opposite_boolean
get_opposite_boolean(boolean) == IF boolean THEN FALSE ELSE TRUE

\* canvas.update() runs the command of the Pause button.
PressPause ==
    /\ pc \in Updating
    /\ pause_signal' = get_opposite_boolean(pause_signal)
    /\ UNCHANGED <<grid, pc, stepVars, seedVars, fileVars, genVars, max_framerate,
                   next_frame_signal, next_frame_button, canvas, drawn_cells,
                   mode, stack, history,
                   superseded>>

\* canvas.update() runs the command of the Next frame button, which can be
\* pressed while it is shown.
PressNextFrame ==
    /\ pc \in Updating
    /\ next_frame_button
    /\ next_frame_signal' = get_opposite_boolean(next_frame_signal)
    /\ UNCHANGED <<grid, pc, stepVars, seedVars, fileVars, genVars, max_framerate,
                   pause_signal, next_frame_button, canvas, drawn_cells,
                   mode, stack, history,
                   superseded>>

\* The value that apply_settings gives a setting whose entry holds text: none
\* for the empty text, int(text) when that does not raise, the given fallback
\* otherwise.
AppliedSetting(text, current, fallback) ==
    IF text = <<>> THEN current
    ELSE IF IntRaises(text) THEN fallback
    ELSE int(text)

\* The texts that the user leaves in the entries of the canvas size and of
\* the maximum frame rate in the window specifications: nothing, not a
\* number, or a number.
MaxCanvasSide == 2
SizeTexts == {<<>>, <<"x">>} \cup {str(n) : n \in 1..MaxCanvasSide}
FramerateTexts == {<<>>, <<"0">>, str(DEFAULT_MAX_FRAMERATE)}

\* canvas.update() runs apply_settings with the texts of the entries taken
\* from the given sets; the entries of the seed percentages are left empty.
apply_settings(heights, widths, framerates) ==
    /\ pc \in Updating
    /\ \E new_height \in heights, new_width \in widths,
          new_max_framerate \in framerates :
         /\ canvas' = [canvas EXCEPT
                         !.height = AppliedSetting(new_height, @, canvas.height),
                         !.width = AppliedSetting(new_width, @, canvas.width)]
         /\ max_framerate' =
                AppliedSetting(new_max_framerate, max_framerate, max_framerate)
    /\ UNCHANGED <<grid, pc, stepVars, seedVars, fileVars, genVars,
                   pause_signal, next_frame_signal, next_frame_button,
                   drawn_cells, mode, stack, history,
                   superseded>>

\* Apply settings with a canvas size and the other entries empty.
PressApplyCanvasSize == apply_settings(SizeTexts, SizeTexts, {<<>>})

\* Apply settings with a maximum frame rate and the other entries empty.
PressApplyFramerate == apply_settings({<<>>}, {<<>>}, FramerateTexts)

\* The number of game_loop calls that the window specifications let wait in
\* canvas.update().
MaxDepth == 1

\* canvas.update() runs the command of the New, Replay or Load button:
\* game_loop(..., mode_lowercase, ...) is called while the running call waits
\* inside canvas.update().
PressSimMode(mode_lowercase) ==
    /\ pc \in Updating
    /\ Len(stack) < MaxDepth
    /\ stack' = Append(stack, Locals)
    /\ mode' = mode_lowercase
    /\ pc' = "create_simulation"
    /\ grid' = <<>>
    /\ cells_to_be_killed' = <<>>
    /\ cells_to_be_revived' = <<>>
    /\ living_cells_before_next_generation' = 0
    /\ cells_alive' = 0
    /\ pre_step_grid' = <<>>
    /\ canvas_height' = 0
    /\ canvas_width' = 0
    /\ amount_of_cells_to_seed' = 0
    /\ history' = <<>>
    /\ superseded' = FALSE
    /\ UNCHANGED <<current_seed, fileVars, min_auto_seed_percent,
                   max_auto_seed_percent, windowVars>>

PressNew == PressSimMode("new")
PressReplay == PressSimMode("replay")
PressLoad == PressSimMode("load")

\* An exception leaves a game_loop that a button called: tkinter reports it
\* and canvas.update() of the waiting call goes on.
ReportCallbackException ==
    /\ pc \in Exceptions
    /\ stack # <<>>
    /\ \E frame \in {stack[Len(stack)]} :
         /\ grid' = frame.grid
         /\ pc' = frame.pc
         /\ cells_to_be_killed' = frame.cells_to_be_killed
         /\ cells_to_be_revived' = frame.cells_to_be_revived
         /\ living_cells_before_next_generation' =
                frame.living_cells_before_next_generation
         /\ cells_alive' = frame.cells_alive
         /\ pre_step_grid' = frame.pre_step_grid
         /\ canvas_height' = frame.canvas_height
         /\ canvas_width' = frame.canvas_width
         /\ amount_of_cells_to_seed' = frame.amount_of_cells_to_seed
         /\ mode' = frame.mode
         /\ history' = frame.history
         /\ superseded' = frame.superseded
    /\ stack' = SubSeq(stack, 1, Len(stack) - 1)
    /\ UNCHANGED <<current_seed, fileVars, min_auto_seed_percent,
                   max_auto_seed_percent, windowVars>>

\* main: the window has been created and game_loop is called in mode "new".
\* The canvas has 1..MaxCanvasSide rows and columns, and up to MaxWindowPercent
\* per cent of the cells are seeded.
MaxWindowPercent == 50

InitWindowSpec ==
    /\ \E height \in 1..MaxCanvasSide, width \in 1..MaxCanvasSide :
         canvas = [height |-> height, width |-> width, items |-> {}]
    /\ min_auto_seed_percent = 0
    /\ max_auto_seed_percent = MaxWindowPercent
    /\ max_framerate = DEFAULT_MAX_FRAMERATE
    /\ drawn_cells = <<>>
    /\ pause_signal = FALSE
    /\ next_frame_signal = FALSE
    /\ next_frame_button = FALSE
    /\ mode = "new"
    /\ stack = <<>>
    /\ history = <<>>
    /\ superseded = FALSE
    /\ pc = "create_simulation"
    /\ grid = <<>>
    /\ canvas_height = 0
    /\ canvas_width = 0
    /\ current_seed = <<>>
    /\ amount_of_cells_to_seed = 0
    /\ cells_to_be_killed = <<>>
    /\ cells_to_be_revived = <<>>
    /\ living_cells_before_next_generation = 0
    /\ cells_alive = 0
    /\ pre_step_grid = <<>>
    /\ seed_file = <<>>
    /\ written = <<>>

\* Simulations that are restarted from the buttons New, Replay and Load while
\* they run, with the settings applied in between; Pause is never pressed.
NextRestart ==
    \/ ResetSimulation
    \/ GenerateAmount \/ GenerateCell \/ GenerateSave
    \/ AskOpenFilename \/ CancelOpenFilename \/ LoadSeedFromFile
    \/ ConfigCanvas \/ CreateGrid \/ ApplySeed
    \/ DrawFirstFrame \/ ResetLoop
    \/ RunCalculate \/ RunCreate \/ RunCount
    \/ DrawCanvas \/ FrameRate \/ FrameWait \/ UpdateReturns
    \/ PressApplyCanvasSize
    \/ PressNew \/ PressReplay \/ PressLoad
    \/ ReportCallbackException

SpecRestart == InitWindowSpec /\ [][NextRestart]_vars

\* A generated simulation that is replayed while it runs.
NextReplay ==
    \/ ResetSimulation
    \/ GenerateAmount \/ GenerateCell \/ GenerateSave
    \/ ConfigCanvas \/ CreateGrid \/ ApplySeed
    \/ DrawFirstFrame \/ ResetLoop
    \/ RunCalculate \/ RunCreate \/ RunCount
    \/ DrawCanvas \/ FrameRate \/ FrameWait \/ UpdateReturns
    \/ PressApplyCanvasSize \/ PressApplyFramerate
    \/ PressReplay
    \/ ReportCallbackException

SpecReplay == InitWindowSpec /\ [][NextReplay]_vars

\* A generated simulation that is paused, single-stepped and resumed.
NextPause ==
    \/ ResetSimulation
    \/ GenerateAmount \/ GenerateCell \/ GenerateSave
    \/ ConfigCanvas \/ CreateGrid \/ ApplySeed
    \/ DrawFirstFrame \/ ResetLoop \/ PauseWait
    \/ RunCalculate \/ RunCreate \/ RunCount
    \/ DrawCanvas \/ FrameRate \/ FrameWait \/ UpdateReturns
    \/ PressPause \/ PressNextFrame

SpecPause == InitWindowSpec /\ [][NextPause]_vars

----------------------------------------------------------------------------
(* Vocabulary of the properties: the grid as the specification sees it,    *)
(* with a hard boundary.  Coordinates are 0-based, as in the program.      *)

Height(g) == Len(g)
Width(g) == IF Len(g) = 0 THEN 0 ELSE Len(g[1])
Coordinates(g) == (0..(Height(g) - 1)) \X (0..(Width(g) - 1))
State(g, c) == g[c[1] + 1][c[2] + 1]

\* The adjacent positions of c that lie inside the grid.
Adjacent(g, c) ==
    {d \in Coordinates(g) :
        /\ d # c
        /\ d[1] - c[1] \in {-1, 0, 1}
        /\ d[2] - c[2] \in {-1, 0, 1}}

AliveAdjacent(g, c) == Cardinality({d \in Adjacent(g, c) : State(g, d) = 1})
AliveCells(g) == {c \in Coordinates(g) : State(g, c) = 1}

\* The rule table of the game.
RuleTable(g, c) ==
    IF State(g, c) = 1
    THEN (IF AliveAdjacent(g, c) \in {2, 3} THEN 1 ELSE 0)
    ELSE (IF AliveAdjacent(g, c) = 3 THEN 1 ELSE 0)

\* The elements of a list.
Elements(s) == {s[k] : k \in 1..Len(s)}

\* One step + commit of the program on the grid g.
StepCommit(g) ==
    LET r == calculate_next_generation(g) IN
    create_next_generation(r.grid, r.killed, r.revived)

\* The two grids agree on c and on the adjacent positions of c inside the grid.
AgreeAround(g1, g2, c) ==
    \A d \in Adjacent(g1, c) \cup {c} : State(g1, d) = State(g2, d)

\* The generation that started from pre_step_grid has been committed.
Committed == pc \in {"count", "draw"}

----------------------------------------------------------------------------
(* Claims on the generation step, under Spec.                              *)

\* C1: after calculate_next_generation followed by create_next_generation,
\* every cell's state is the rule table applied to the pre-step grid, counting
\* the ALIVE adjacent cells that lie inside the grid.
C1_RuleTable ==
    Committed =>
        \A c \in Coordinates(grid) : State(grid, c) = RuleTable(pre_step_grid, c)

\* C2: hard, non-wrapping boundary: a cell's state after step + commit depends
\* only on the pre-step states of itself and of its adjacent cells inside the
\* grid; any grid of the same dimensions that agrees with the pre-step grid
\* there gives the cell the same next state.
C2_HardBoundary ==
    Committed =>
        \A g2 \in Grids(Height(grid), Width(grid)) :
            \E next2 \in {StepCommit(g2)} :
                \A c \in Coordinates(grid) :
                    AgreeAround(pre_step_grid, g2, c) =>
                        State(next2, c) = State(grid, c)

\* C3: no spontaneous generation: a DEAD cell none of whose adjacent cells
\* inside the grid is ALIVE is still DEAD after step + commit.
C3_NoSpontaneousGeneration ==
    Committed =>
        \A c \in Coordinates(grid) :
            (State(pre_step_grid, c) = 0 /\ AliveAdjacent(pre_step_grid, c) = 0)
                => State(grid, c) = 0

\* C4: underpopulation: an ALIVE cell none of whose adjacent cells inside the
\* grid is ALIVE is DEAD after step + commit, for every grid size and position.
C4_Underpopulation ==
    Committed =>
        \A c \in Coordinates(grid) :
            (State(pre_step_grid, c) = 1 /\ AliveAdjacent(pre_step_grid, c) = 0)
                => State(grid, c) = 0

\* C7: the third value returned by calculate_next_generation is the number of
\* ALIVE cells of the pre-step grid, and living_cells_before_next_generation +
\* len(cells_to_be_revived) - len(cells_to_be_killed), which run_simulation
\* stores in cells_alive, is the number of ALIVE cells after
\* create_next_generation, in every iteration.
C7_AliveCounter ==
    /\ pc \in {"create", "count", "draw"} =>
         living_cells_before_next_generation = Cardinality(AliveCells(pre_step_grid))
    /\ Committed =>
         living_cells_before_next_generation + Len(cells_to_be_revived)
             - Len(cells_to_be_killed) = Cardinality(AliveCells(grid))
    /\ pc = "draw" => cells_alive = Cardinality(AliveCells(grid))

\* A second iteration has counted a generation in which cells died and were born.
C7_Witness ==
    /\ pc = "draw"
    /\ cells_alive > 0
    /\ cells_to_be_killed # <<>>
    /\ cells_to_be_revived # <<>>
    /\ cells_alive # living_cells_before_next_generation

\* C8: calculate_next_generation leaves the grid unchanged, every kill/revive
\* decision is the rule applied to the neighbour count of the grid as it was
\* when the call began, and only create_next_generation mutates the grid.
C8_Simultaneity ==
    [][ /\ grid' # grid => pc = "create"
        /\ pc = "calculate" =>
             \A c \in Coordinates(grid) :
                LET n == CountNeighbours(c[1], c[2], 0, grid) IN
                /\ c \in Elements(cells_to_be_killed')
                     <=> (State(grid, c) = 1 /\ (n < 2 \/ n > 3))
                /\ c \in Elements(cells_to_be_revived')
                     <=> (State(grid, c) = 0 /\ n = 3) ]_vars

\* calculate_next_generation has returned kills and revivals, the grid untouched.
C8_Witness ==
    /\ pc = "create"
    /\ cells_to_be_killed # <<>>
    /\ cells_to_be_revived # <<>>
    /\ grid = pre_step_grid

----------------------------------------------------------------------------
(* Claims on known patterns, under SpecBlock and SpecBlinker.              *)

\* C5: still life: with a 2x2 block as the only ALIVE cells of a grid of height
\* >= 2 and width >= 2, wherever the block is placed, no step changes the grid
\* and every calculate_next_generation returns empty kill and revive lists.
C5_BlockStillLife ==
    [][ /\ grid' = grid
        /\ pc = "calculate" =>
             (cells_to_be_killed' = <<>> /\ cells_to_be_revived' = <<>>) ]_vars

\* C6: blinker: on every grid of height >= 5 and width >= 5 that starts with
\* exactly (2,1),(2,2),(2,3) ALIVE, the ALIVE cells are always the horizontal
\* or the vertical line, and every step + commit turns one into the other.
C6_Blinker ==
    [][ /\ AliveCells(grid) \in {HorizontalBlinker, VerticalBlinker}
        /\ pc = "create" =>
             /\ AliveCells(grid) = HorizontalBlinker
                  => AliveCells(grid') = VerticalBlinker
             /\ AliveCells(grid) = VerticalBlinker
                  => AliveCells(grid') = HorizontalBlinker
        /\ pc # "create" => grid' = grid ]_vars

\* The second step + commit has brought the horizontal line back.
C6_Witness ==
    /\ pc = "count"
    /\ AliveCells(pre_step_grid) = VerticalBlinker
    /\ AliveCells(grid) = HorizontalBlinker

----------------------------------------------------------------------------
(* Claims on apply_seed, under SpecSeed.                                   *)

\* The seed holds a coordinate outside the grid of the canvas dimensions.
OutOfBoundsSeed ==
    \E k \in 1..Len(current_seed) :
        current_seed[k][1] >= canvas_height \/ current_seed[k][2] >= canvas_width

\* C9: applying a seed that contains a coordinate with row = height or column =
\* width fails with an out-of-bounds error and leaves the grid as it was before
\* apply_seed was called (all DEAD), also when valid coordinates precede the
\* offending one.
C9_ApplySeedAtomic ==
    (OutOfBoundsSeed /\ pc \notin {"create_grid", "apply_seed"}) =>
        /\ pc = "IndexError"
        /\ grid = EmptyGrid(canvas_height, canvas_width)

----------------------------------------------------------------------------
(* Claims on the seed file, under SpecCodec.                               *)

\* C10: round trip: load_seed_from_file on the text written by
\* save_seed_to_file does not fail and yields the same coordinate list, in the
\* same order and with its duplicates, and the same (height, width).
C10_RoundTrip ==
    pc \notin {"save", "load"} =>
        /\ pc = "loaded"
        /\ current_seed = written[1]
        /\ canvas_height = written[2]
        /\ canvas_width = written[3]

\* A seed with a repeated coordinate, two-digit numbers and two coordinates in
\* decreasing order has been written and loaded back.
C10_Witness ==
    /\ pc = "loaded"
    /\ Len(written[1]) = 2
    /\ written[1][1] = <<10, 9>>
    /\ written[1][2] = <<10, 9>>
    /\ written[2] = DEFAULT_CANVAS_HEIGHT
    /\ Len(seed_file) > 0

----------------------------------------------------------------------------
(* Claims on loading a seed file, under SpecLoad.                          *)

\* The lines of a text, without their newlines.
TextLines(text) ==
    LET lines == FileLines(text, 1, <<>>)
        NotNewline(ch) == ch # "\n"
    IN  [k \in 1..Len(lines) |-> SelectSeq(lines[k], NotNewline)]

\* The comma-separated fields of a line.
Fields(line) == Split(line, 1, <<>>)

\* A field is an integer: one or more digits.
IntegerField(field) ==
    /\ field # <<>>
    /\ \A k \in 1..Len(field) : \E d \in 1..10 : DigitChars[d] = field[k]

\* A malformed line: its field count is not exactly two, or one of its fields
\* is not an integer (an empty line has one empty field).
MalformedLine(line) ==
    \/ Len(Fields(line)) # 2
    \/ \E k \in 1..Len(Fields(line)) : ~IntegerField(Fields(line)[k])

LoadErrors == {"ValueError", "IndexError", "UnboundLocalError"}

\* C11: decoding a seed file fails with a parse error on every malformed line:
\* a line with a non-integer field, a line whose field count is not exactly two
\* (fewer or more), and an empty first line.
C11_ParseError ==
    (pc # "load" /\ \E k \in 1..Len(TextLines(seed_file)) :
                        MalformedLine(TextLines(seed_file)[k]))
        => (pc \in LoadErrors /\ grid = <<>>)

\* C12: creating a grid fails with an invalid-dimension error whenever the
\* height or the width is <= 0: no grid, in particular no empty grid and no
\* grid of empty rows, is produced for such dimensions.
C12_InvalidDimension ==
    (canvas_height <= 0 \/ canvas_width <= 0) => pc \notin {"apply_seed", "calculate"}

----------------------------------------------------------------------------
(* Claims on generate_seed, under SpecAmount.                              *)

\* floor(cells * percent / 100), the percentage taken as an exact fraction.
FloorOfPercent(cells, percent) == (cells * percent) \div 100

\* C13: random seed generation fails with an invalid-range error whenever the
\* minimum seed percentage is greater than the maximum seed percentage or
\* either of them is negative, for every grid size.
C13_InvalidRange ==
    (pc # "generate" /\ (\/ min_auto_seed_percent > max_auto_seed_percent
                         \/ min_auto_seed_percent < 0
                         \/ max_auto_seed_percent < 0))
        => pc = "ValueError"

\* C14: for percentages 0 <= min <= max, the number n of coordinates that
\* generate_seed draws satisfies floor(height * width * min / 100) <= n <=
\* floor(height * width * max / 100), so that n is floor(height * width * min /
\* 100) exactly when min = max.
C14_SeedCount ==
    (/\ pc = "generate_cells"
     /\ 0 <= min_auto_seed_percent
     /\ min_auto_seed_percent <= max_auto_seed_percent)
        => /\ FloorOfPercent(canvas_height * canvas_width, min_auto_seed_percent)
                <= amount_of_cells_to_seed
           /\ amount_of_cells_to_seed
                <= FloorOfPercent(canvas_height * canvas_width, max_auto_seed_percent)

----------------------------------------------------------------------------
(* Claims on restarted simulations, under SpecRestart.                     *)

\* C15: a seed is only ever applied to a grid of the dimensions it was
\* generated or saved for: when apply_seed is called, every coordinate of
\* current_seed lies inside the grid.
C15_SeedFitsGrid ==
    pc = "apply_seed" => \A k \in 1..Len(current_seed) :
                             <<current_seed[k][1], current_seed[k][2]>> \in Coordinates(grid)

\* The grid positions of the rectangles on the canvas: draw_canvas creates the
\* rectangle of cell (y, x) at (x, y, x, y).
Rectangles(items) == {<<item[2], item[3]>> : item \in items}

\* The names under which the cells of a set are registered in drawn_cells.
Names(cells) == {rectangle_name(c[1], c[2]) : c \in cells}

\* The coordinates of a list of cells.
Listed(cells) == {<<cells[k][1], cells[k][2]>> : k \in 1..Len(cells)}

\* A draw_canvas step that removes exactly the entries of the killed cells,
\* adds exactly the entries of the revived cells and leaves the others alone.
IncrementalRender ==
    /\ Names(Listed(cells_to_be_killed)) \subseteq DOMAIN drawn_cells
    /\ Names(Listed(cells_to_be_revived)) \cap DOMAIN drawn_cells = {}
    /\ DOMAIN drawn_cells' = (DOMAIN drawn_cells \ Names(Listed(cells_to_be_killed)))
                                 \cup Names(Listed(cells_to_be_revived))
    /\ \A name \in DOMAIN drawn_cells \cap DOMAIN drawn_cells' :
           drawn_cells'[name] = drawn_cells[name]

\* C16: within a running simulation, the draw_canvas call after a generation
\* removes exactly the drawn_cells entries of the killed cells, which all
\* exist, adds exactly the entries of the revived cells, none of which
\* existed, and leaves every other entry as it was.
C16_IncrementalRender == [][pc = "draw" => IncrementalRender]_vars

\* A draw_canvas step after which the rectangles on the canvas are the ALIVE
\* cells of the grid, each registered in drawn_cells under its name.
CanvasShowsGrid ==
    /\ Rectangles(canvas'.items) = AliveCells(grid)
    /\ DOMAIN drawn_cells' = Names(AliveCells(grid))
    /\ {drawn_cells'[name] : name \in DOMAIN drawn_cells'}
          = {item[1] : item \in canvas'.items}

\* C18: across New, Replay and Load, including a Load that fails, after every
\* draw_canvas call the rectangles on the canvas are exactly the ALIVE cells of
\* the grid of the running simulation, and so are the entries of drawn_cells.
C18_CanvasShowsGrid == [][(pc \in {"first_draw", "draw"}) => CanvasShowsGrid]_vars

----------------------------------------------------------------------------
(* Claims on replayed simulations, under SpecReplay.                       *)

\* The simulation that the running one has interrupted.
Interrupted == stack[Len(stack)]

\* The running simulation is a replay, on a grid of the same dimensions, of
\* the simulation that it has interrupted, and both have drawn a first frame.
ReplayOfInterrupted ==
    /\ stack # <<>>
    /\ mode = "replay"
    /\ history # <<>>
    /\ Interrupted.history # <<>>
    /\ Height(history[1][1]) = Height(Interrupted.history[1][1])
    /\ Width(history[1][1]) = Width(Interrupted.history[1][1])

----------------------------------------------------------------------------
(* Claims on the pause and on single-stepping, under SpecPause.            *)

\* A step that computes nothing of a generation and leaves the grid alone.
NoGeneration == UNCHANGED <<grid, cells_to_be_killed, cells_to_be_revived>>

\* C19: while pause_signal is true and next_frame_signal is false,
\* run_simulation computes no generation: from the Pause press on, the grid
\* and the lists of the cells to kill and to revive stay as they are until
\* pause_signal is false again or next_frame_signal is true.
C19_PauseSafety == [][(pause_signal /\ ~next_frame_signal) => NoGeneration]_vars

\* The paused simulation waits in canvas.update() with ALIVE cells on the
\* grid, which the next generation would change.
C19_Witness ==
    /\ pc = "pause_update"
    /\ pause_signal
    /\ ~next_frame_signal
    /\ AliveCells(grid) # {}

\* The steps of a single-stepped simulation: the top of the loop resets
\* next_frame_signal and, while paused, enters the wait loop; the wait loop
\* yields to the events while the signal is false; a generation of the paused
\* simulation starts only from the wait loop with the signal true; and a
\* generation that has started is calculated, committed, counted and drawn
\* once before the frame-rate wait.
SingleStep ==
    /\ pc = "loop_top" => /\ next_frame_signal' = FALSE
                          /\ pause_signal => pc' = "pause_wait"
    /\ (pc = "pause_wait" /\ pause_signal /\ ~next_frame_signal)
          => pc' = "pause_update"
    /\ (pc' = "calculate" /\ pause_signal)
          => (pc = "pause_wait" /\ next_frame_signal)
    /\ pc = "calculate" => pc' = "create"
    /\ pc = "create" => pc' = "count"
    /\ pc = "count" => pc' = "draw"
    /\ pc = "draw" => pc' = "update"
    /\ pc \in {"update", "frame_rate", "frame_wait", "frame_update"}
          => pc' \in {"update", "frame_rate", "frame_wait", "frame_update", "loop_top"}

\* C20: when the wait loop is left because next_frame_signal is true while
\* pause_signal stays true, exactly one generation is calculated, committed
\* and drawn, next_frame_signal is reset to false at the top of the next
\* iteration, and the loop waits again before any further generation.
C20_SingleStep == [][SingleStep]_vars

\* A generation of the paused simulation has been drawn after a press of
\* Next frame.
C20_Witness ==
    /\ pc = "update"
    /\ pause_signal
    /\ next_frame_signal
    /\ Len(history) >= 2
    /\ history[Len(history)][2] # <<>>

\* A press of the Next frame button: the only step that changes
\* next_frame_signal while run_simulation stays where it is.
NextFramePress == pc' = pc /\ next_frame_signal' # next_frame_signal

\* C21: no press of the Next frame button made while the simulation is paused
\* is lost: every such press leaves next_frame_signal true, so that the loop
\* advances one generation for it.
C21_PressRegistered == [][(NextFramePress /\ pause_signal) => next_frame_signal']_vars

----------------------------------------------------------------------------
(* Claims on the game_loop calls of the buttons, under SpecReplay and      *)
(* SpecRestart.                                                            *)

\* C22: once the create_simulation of a game_loop called from a button has
\* returned its grid, the grid of the run_simulation that it interrupted is
\* never mutated again.
C22_SingleActiveSimulation == [][(superseded /\ superseded') => grid' = grid]_vars

\* The exceptions with which load_seed_from_file ends.
LoadFailures == LoadErrors \cup {"FileNotFoundError"}

\* C23: a Load that fails changes no seed state: when load_seed_from_file
\* raises, current_seed holds the coordinates it held before the Load.
C23_FailedLoadKeepsSeed ==
    [][(mode = "load" /\ pc' \in LoadFailures) => current_seed' = current_seed]_vars

----------------------------------------------------------------------------
(* Claims on the lists of a generation and on the neighbour count, under   *)
(* Spec.                                                                   *)

\* The list holds no coordinate twice.
NoDuplicates(cells) == Cardinality(Listed(cells)) = Len(cells)

\* The grid g with the cells of the set kills DEAD and those of the set
\* revivals ALIVE, whatever the order.
Changed(g, kills, revivals) ==
    [r \in 1..Height(g) |->
        [c \in 1..Width(g) |->
            IF <<r - 1, c - 1>> \in revivals THEN 1
            ELSE IF <<r - 1, c - 1>> \in kills THEN 0
            ELSE g[r][c]]]

\* C24: the coordinates in cells_to_be_killed are ALIVE in the pre-step grid
\* and those in cells_to_be_revived are DEAD in it, the two lists are disjoint,
\* neither holds a coordinate twice and every coordinate lies inside the grid;
\* the grid that create_next_generation leaves is the pre-step grid with these
\* cells changed, and it is the same with the revivals applied before the
\* kills.
C24_DeltaWellFormed ==
    pc \in {"create", "count"} =>
        /\ Listed(cells_to_be_killed) \subseteq AliveCells(pre_step_grid)
        /\ Listed(cells_to_be_revived)
              \subseteq Coordinates(pre_step_grid) \ AliveCells(pre_step_grid)
        /\ Listed(cells_to_be_killed) \cap Listed(cells_to_be_revived) = {}
        /\ NoDuplicates(cells_to_be_killed)
        /\ NoDuplicates(cells_to_be_revived)
        /\ pc = "count" =>
              /\ grid = Changed(pre_step_grid, Listed(cells_to_be_killed),
                                Listed(cells_to_be_revived))
              /\ grid = AssignCells(AssignCells(pre_step_grid, cells_to_be_revived, 1, 1),
                                    cells_to_be_killed, 1, 0)

\* A generation with kills and revivals has been committed.
C24_Witness ==
    /\ pc = "count"
    /\ cells_to_be_killed # <<>>
    /\ cells_to_be_revived # <<>>

\* The position that lies in the direction i of the position c: north, then
\* clockwise.
Towards(c, i) ==
    CASE i = 0 -> <<c[1] - 1, c[2]>>
      [] i = 1 -> <<c[1] - 1, c[2] + 1>>
      [] i = 2 -> <<c[1], c[2] + 1>>
      [] i = 3 -> <<c[1] + 1, c[2] + 1>>
      [] i = 4 -> <<c[1] + 1, c[2]>>
      [] i = 5 -> <<c[1] + 1, c[2] - 1>>
      [] i = 6 -> <<c[1], c[2] - 1>>
      [] i = 7 -> <<c[1] - 1, c[2] - 1>>

\* The cells that have a row above them and a column to their left.
InnerCells(g) == {c \in Coordinates(g) : c[1] >= 1 /\ c[2] >= 1}

\* C25: the south and the east edge are hard: for every cell with row >= 1 and
\* column >= 1 the eight check_neighbour results add up to the number of ALIVE
\* cells among its adjacent positions inside the grid, and a position with
\* row = height or column = width contributes 0.
C25_SouthEastHard ==
    \A c \in InnerCells(grid) :
        /\ CountNeighbours(c[1], c[2], 0, grid) = AliveAdjacent(grid, c)
        /\ \A i \in 0..7 :
              (Towards(c, i)[1] = Height(grid) \/ Towards(c, i)[2] = Width(grid))
                  => check_neighbour(c[1], c[2], i, grid) = 0

\* calculate_next_generation has run on a grid of three rows whose south-east
\* corner has an ALIVE adjacent cell, with ALIVE cells in the first row and
\* in the first column, which a wrapping edge would count.
C25_Witness ==
    /\ pc = "create"
    /\ Height(grid) >= 3
    /\ Width(grid) >= 3
    /\ AliveAdjacent(grid, <<Height(grid) - 1, Width(grid) - 1>>) >= 1
    /\ State(grid, <<0, Width(grid) - 1>>) = 1
    /\ State(grid, <<Height(grid) - 1, 0>>) = 1

====
